---- MODULE Spec2Model ----
(***************************************************************************)
(* State-machine model of the Marketing AI front end:                      *)
(*   frontend/src/app/page.tsx            Home (workflow state + handlers) *)
(*   frontend/src/components/UrlInput.tsx UrlInput                         *)
(*   frontend/src/components/ContentGallery.tsx                            *)
(*                          ContentGallery, DownloadModal, GenerationForm  *)
(*   LogoUpload, types (PLATFORMS, ExtractionStatus, ...)                  *)
(*   api client (downloadContent, generateImage, generateVideo)            *)
(*                                                                         *)
(* Every React event handler is one action.  An async handler is split at  *)
(* its awaits: the part before the first await runs inside the event that  *)
(* calls it, and each timer expiry resumes the stored continuation.  A     *)
(* continuation keeps the values its closure captured when the handler was *)
(* called.  Component-local state is reset when the component unmounts,    *)
(* i.e. when `step` stops selecting it.                                    *)
(*                                                                         *)
(* Spec follows Home and its components and takes a download as the        *)
(* request handleDownload makes.  SpecDownload follows the requests of the *)
(* gallery into downloadContent and its fetches.  SpecApi follows one call *)
(* of generateImage or generateVideo, which Home never calls.              *)
(***************************************************************************)
EXTENDS Integers, Sequences, FiniteSets, TLC

VARIABLES
    step,               \* Home: useState<GenerationStep>
    extractionStatus,   \* Home: useState<ExtractionStatus>
    brand,              \* Home: useState<BrandDNA | null>
    generatedContent,   \* Home: useState<GeneratedContent[]>
    isGenerating,       \* Home: useState(false)
    isExtracting,       \* Home: useState(false)
    extractRuns,        \* handleExtract calls suspended at their await
    genTasks,           \* handleGenerate calls suspended at their await
    now,                \* Date.now(), as a logical clock
    genCompleted,       \* history: handleGenerate calls that ran to their end
    url,                \* UrlInput: useState('')
    isValid,            \* UrlInput: useState(true)
    selectedFile,       \* LogoUpload: useState<File | null>
    position,           \* LogoUpload: useState('bottom-right')
    size,               \* LogoUpload: useState('medium')
    selectedItem,       \* ContentGallery: useState<GeneratedContent | null>
    showDownloadModal,  \* ContentGallery: useState(false)
    downloadRequest,    \* the call of handleDownload made by the step just
                        \* taken (item, format, quality); Null when it made none
    fetches,            \* api downloadContent: calls suspended at their await
    lastFetched,        \* history: the key of the download that finished last
    apiCall             \* api generateImage / generateVideo: the call under way

vars == <<step, extractionStatus, brand, generatedContent, isGenerating,
          isExtracting, extractRuns, genTasks, now, genCompleted, url,
          isValid, selectedFile, position, size, selectedItem, showDownloadModal,
          downloadRequest, fetches, lastFetched, apiCall>>

urlVars == <<url, isValid>>
logoVars == <<selectedFile, position, size>>
galleryVars == <<selectedItem, showDownloadModal>>
netVars == <<fetches, lastFetched, apiCall>>

\* JavaScript null.  A record, so that it compares (unequal) with the
\* records that stand for objects.
Null == [null |-> TRUE]

----------------------------------------------------------------------------
\* Bounds of the model.

\* Generations requested in one behaviour.
MaxGen == 2

\* Downloads under way at one time.
MaxFetches == 2

----------------------------------------------------------------------------
\* Reference data.

\* types: GenerationStep
GenerationStep == {"url", "extracting", "confirm", "logo", "generate", "gallery"}

\* Mutant: the id of the fourth platform is not one of the schema's.
PLATFORMSRenamed == <<"instagram_post", "instagram_story", "facebook", "twitter">>

\* types: PLATFORMS (ids)
PLATFORMS == <<"instagram_post", "instagram_story", "facebook", "linkedin">>

\* LogoUpload: POSITIONS, SIZES
POSITIONS == <<"top-left", "top-right", "bottom-left", "bottom-right", "center">>
SIZES == <<"small", "medium", "large">>

\* Mutant: the accent colour has lost its leading '#'.
MOCK_BRANDBareAccent ==
    [ id         |-> "demo-1",
      name       |-> "TechVenture",
      websiteUrl |-> <<"http", "s", "://", "techventure.com">>,
      colors     |-> [ primary    |-> <<"#", "6", "3", "6", "6", "f", "1">>,
                       secondary  |-> <<"#", "e", "c", "4", "8", "9", "9">>,
                       accent     |-> <<"0", "6", "b", "6", "d", "4">>,
                       background |-> <<"#", "0", "f", "1", "7", "2", "a">>,
                       text       |-> <<"#", "f", "8", "f", "a", "f", "c">> ],
      logo       |-> Null,
      tone       |-> "Profesional e Innovador",
      industry   |-> "Tecnologia" ]

\* page.tsx: MOCK_BRAND (extractedAt, typography and keywords are constant
\* and are read by no handler).  A colour is the sequence of its characters.
MOCK_BRAND ==
    [ id         |-> "demo-1",
      name       |-> "TechVenture",
      websiteUrl |-> <<"http", "s", "://", "techventure.com">>,
      colors     |-> [ primary    |-> <<"#", "6", "3", "6", "6", "f", "1">>,
                       secondary  |-> <<"#", "e", "c", "4", "8", "9", "9">>,
                       accent     |-> <<"#", "0", "6", "b", "6", "d", "4">>,
                       background |-> <<"#", "0", "f", "1", "7", "2", "a">>,
                       text       |-> <<"#", "f", "8", "f", "a", "f", "c">> ],
      logo       |-> Null,
      tone       |-> "Profesional e Innovador",
      industry   |-> "Tecnologia" ]

\* page.tsx: MOCK_CONTENT
MOCK_CONTENT ==
    << [ id |-> "1", type |-> "image", platform |-> "instagram_post",
         url |-> "unsplash-1611162617474", prompt |-> [chars |-> 50, spaces |-> 0],
         brandId |-> "demo-1" ],
       [ id |-> "2", type |-> "image", platform |-> "facebook",
         url |-> "unsplash-1460925895917", prompt |-> [chars |-> 39, spaces |-> 0],
         brandId |-> "demo-1" ] >>

\* Mutant: the typography and tone stages change places.
stagesSwapped ==
    << [stage |-> "crawling",         message |-> "Escaneando paginas del sitio...",    progress |-> 20],
       [stage |-> "analyzing_colors", message |-> "Extrayendo paleta de colores...",    progress |-> 40],
       [stage |-> "analyzing_tone",   message |-> "Analizando tono de comunicacion...", progress |-> 60],
       [stage |-> "analyzing_fonts",  message |-> "Identificando tipografias...",       progress |-> 80],
       [stage |-> "complete",         message |-> "ADN de marca extraido!",             progress |-> 100] >>

\* Mutant: the analyzing_tone checkpoint already reports 100 percent.
stagesEarlyHundred ==
    << [stage |-> "crawling",         message |-> "Escaneando paginas del sitio...",    progress |-> 20],
       [stage |-> "analyzing_colors", message |-> "Extrayendo paleta de colores...",    progress |-> 40],
       [stage |-> "analyzing_fonts",  message |-> "Identificando tipografias...",       progress |-> 60],
       [stage |-> "analyzing_tone",   message |-> "Analizando tono de comunicacion...", progress |-> 100],
       [stage |-> "complete",         message |-> "ADN de marca extraido!",             progress |-> 100] >>

\* handleExtract: const stages
stages ==
    << [stage |-> "crawling",         message |-> "Escaneando paginas del sitio...",    progress |-> 20],
       [stage |-> "analyzing_colors", message |-> "Extrayendo paleta de colores...",    progress |-> 40],
       [stage |-> "analyzing_fonts",  message |-> "Identificando tipografias...",       progress |-> 60],
       [stage |-> "analyzing_tone",   message |-> "Analizando tono de comunicacion...", progress |-> 80],
       [stage |-> "complete",         message |-> "ADN de marca extraido!",             progress |-> 100] >>

\* DownloadModal: imageFormats, videoFormats (url and size are display data)
imageFormats ==
    << [format |-> "png",  quality |-> "hd"],
       [format |-> "png",  quality |-> "4k"],
       [format |-> "jpg",  quality |-> "hd"],
       [format |-> "webp", quality |-> "hd"],
       [format |-> "pdf",  quality |-> "hd"] >>

videoFormats ==
    << [format |-> "mp4",  quality |-> "hd"],
       [format |-> "mp4",  quality |-> "4k"],
       [format |-> "mov",  quality |-> "hd"],
       [format |-> "webm", quality |-> "hd"] >>

----------------------------------------------------------------------------
\* Inputs of the user.

\* Text is a sequence of tokens, so that startsWith and the https:// prefix
\* are computed on it.  "a b" is a host with a space in it.
HttpsPrefix == <<"http", "s", "://">>
ValidHosts == {"apple.com", "spotify.com", "airbnb.com"}

\* UrlInput: the example buttons.  The three differ only in the host; the
\* user of the model clicks the first.
ExampleUrls == { <<"apple.com">> }

\* What the user types into the URL field: nothing, a host that does not
\* parse, a full URL, and text that starts with http and does not parse.
TypedUrls == { <<>>, <<"a b">>, <<"http", "s", "://", "apple.com">>, <<"http", "x">> }

\* The positions and sizes the user clicks in LogoUpload besides the defaults.
PositionChoices == {"center"}
SizeChoices == {"large"}

\* Files the user picks as a logo.
Files == { [name |-> "logo.png", type |-> "image/png"] }

\* Prompts the user writes: the number of non-space characters and of
\* spaces.  The textarea sets no maximum length.
EmptyPrompt == [chars |-> 0,   spaces |-> 0]
BlankPrompt == [chars |-> 0,   spaces |-> 3]
ShortPrompt == [chars |-> 12,  spaces |-> 2]
LongPrompt  == [chars |-> 501, spaces |-> 0]

\* What the user submits in GenerationForm: the selected platform (its place
\* in PLATFORMS: instagram_post, linkedin, facebook, instagram_post,
\* instagram_story), the prompt, the content type.
GenerationInputs ==
    { <<1, ShortPrompt, "image">>,
      <<4, ShortPrompt, "video">>,
      <<3, LongPrompt,  "image">>,
      <<1, EmptyPrompt, "image">>,
      <<2, BlankPrompt, "video">> }

----------------------------------------------------------------------------
\* Pure helpers.

Range(s) == { s[i] : i \in DOMAIN s }

RemoveAt(s, i) == SubSeq(s, 1, i - 1) \o SubSeq(s, i + 1, Len(s))

\* value.startsWith('http')
StartsWithHttp(value) == Len(value) > 0 /\ value[1] = "http"

\* new URL(value) does not throw: scheme http or https, "://", a host.
ParsesAsURL(value) ==
    \/ /\ Len(value) = 3
       /\ value[1] = "http" /\ value[2] = "://" /\ value[3] \in ValidHosts
    \/ /\ Len(value) = 4
       /\ value[1] = "http" /\ value[2] = "s" /\ value[3] = "://"
       /\ value[4] \in ValidHosts

\* Mutant: every value is taken as valid.
validateUrlLax(value) == TRUE

\* UrlInput.validateUrl
validateUrl(value) ==
    IF value = <<>> THEN TRUE
    ELSE ParsesAsURL(IF StartsWithHttp(value) THEN value ELSE HttpsPrefix \o value)

\* UrlInput.handleSubmit: const fullUrl
fullUrl(value) == IF StartsWithHttp(value) THEN value ELSE HttpsPrefix \o value

\* prompt.trim() is not empty
TrimNonEmpty(prompt) == prompt.chars > 0

\* brand?.logo is set
HasLogo(b) == b # Null /\ b.logo # Null

\* renderNavigation: const steps
navSteps == <<"url", "confirm", "logo", "generate", "gallery">>

\* steps.findIndex(s => s.id === id), 1-based; 0 when absent (JavaScript -1)
findIndex(id) ==
    IF \E i \in DOMAIN navSteps : navSteps[i] = id
    THEN CHOOSE i \in DOMAIN navSteps : navSteps[i] = id
    ELSE 0

\* Mutant: the current step counts as completed too.
isClickableInclusive(s) == findIndex(s) <= findIndex(step) \/ s = "gallery"

\* renderNavigation: isClickable of the button of step s
isClickable(s) == findIndex(s) < findIndex(step) \/ s = "gallery"

\* Home: items={generatedContent.length > 0 ? generatedContent : MOCK_CONTENT}
GalleryItems == IF Len(generatedContent) > 0 THEN generatedContent ELSE MOCK_CONTENT

\* Mutant: the two format lists are chosen the wrong way round.
formatsSwapped(item) == IF item.type = "video" THEN imageFormats ELSE videoFormats

\* DownloadModal: const formats = isVideo ? videoFormats : imageFormats
formats(item) == IF item.type = "video" THEN videoFormats ELSE imageFormats

\* Mutant: the submit button ignores isLoading (disabled={!url}).
SubmitEnabledWhileLoading == url # <<>>

\* UrlInput: the submit button is enabled (disabled={!url || isLoading})
SubmitEnabled == url # <<>> /\ ~isExtracting

\* Mutant: the button stays active while a generation is running.
GenerateEnabledWhileBusy(prompt) == TrimNonEmpty(prompt)

\* GenerationForm: the submit button is enabled
\* (disabled={!prompt.trim() || isGenerating})
GenerateEnabled(prompt) == TrimNonEmpty(prompt) /\ ~isGenerating

----------------------------------------------------------------------------
\* Rendering: a component keeps its local state only while `step` selects it.

\* Mutant: a newly mounted LogoUpload starts at position center.
SetStepCentered(s) ==
    /\ step' = s
    /\ IF s = "url" /\ step = "url"
       THEN UNCHANGED urlVars
       ELSE url' = <<>> /\ isValid' = TRUE
    /\ IF s = "logo" /\ step = "logo"
       THEN UNCHANGED logoVars
       ELSE selectedFile' = Null /\ position' = "center" /\ size' = "medium"
    /\ IF s = "gallery" /\ step = "gallery"
       THEN UNCHANGED galleryVars
       ELSE selectedItem' = Null /\ showDownloadModal' = FALSE

SetStep(s) ==
    /\ step' = s
    /\ IF s = "url" /\ step = "url"
       THEN UNCHANGED urlVars
       ELSE url' = <<>> /\ isValid' = TRUE
    /\ IF s = "logo" /\ step = "logo"
       THEN UNCHANGED logoVars
       ELSE selectedFile' = Null /\ position' = "bottom-right" /\ size' = "medium"
    /\ IF s = "gallery" /\ step = "gallery"
       THEN UNCHANGED galleryVars
       ELSE selectedItem' = Null /\ showDownloadModal' = FALSE

----------------------------------------------------------------------------
Init ==
    /\ step = "url"
    /\ extractionStatus = [stage |-> "idle", progress |-> 0, message |-> ""]
    /\ brand = Null
    /\ generatedContent = <<>>
    /\ isGenerating = FALSE
    /\ isExtracting = FALSE
    /\ extractRuns = <<>>
    /\ genTasks = <<>>
    /\ now = 0
    /\ genCompleted = 0
    /\ url = <<>>
    /\ isValid = TRUE
    /\ selectedFile = Null
    /\ position = "bottom-right"
    /\ size = "medium"
    /\ selectedItem = Null
    /\ showDownloadModal = FALSE
    /\ downloadRequest = Null
    /\ fetches = <<>>
    /\ lastFetched = Null
    /\ apiCall = Null

----------------------------------------------------------------------------
\* UrlInput

\* <input onChange>: the field is disabled while isLoading
UrlChange(v) ==
    /\ step = "url"
    /\ ~isExtracting
    /\ url' = v
    /\ isValid' = TRUE
    /\ UNCHANGED <<step, extractionStatus, brand, generatedContent, isGenerating,
                   isExtracting, extractRuns, genTasks, now, genCompleted,
                   logoVars, galleryVars>>
    /\ downloadRequest' = Null
    /\ UNCHANGED netVars

\* the example buttons: onClick={() => setUrl(example)}
UrlExample(e) ==
    /\ step = "url"
    /\ url' = e
    /\ UNCHANGED <<step, extractionStatus, brand, generatedContent, isGenerating,
                   isExtracting, extractRuns, genTasks, now, genCompleted,
                   isValid, logoVars, galleryVars>>
    /\ downloadRequest' = Null
    /\ UNCHANGED netVars

\* Home.handleExtract up to its first await
handleExtract(u) ==
    /\ isExtracting' = TRUE
    /\ SetStep("extracting")
    /\ extractionStatus' = stages[1]
    /\ extractRuns' = Append(extractRuns, [url |-> u, idx |-> 1])
    /\ UNCHANGED <<brand, generatedContent, isGenerating, genTasks, now,
                   genCompleted>>

\* UrlInput.handleSubmit
UrlSubmit ==
    /\ step = "url"
    /\ SubmitEnabled
    /\ IF validateUrl(fullUrl(url))
       THEN handleExtract(fullUrl(url))
       ELSE /\ isValid' = FALSE
            /\ UNCHANGED <<step, extractionStatus, brand, generatedContent,
                           isGenerating, isExtracting, extractRuns, genTasks, now,
                           genCompleted, url, logoVars, galleryVars>>
    /\ downloadRequest' = Null
    /\ UNCHANGED netVars

\* Mutant: the loop stops one stage early.
handleExtractStageShort(i) ==
    /\ i \in DOMAIN extractRuns
    /\ extractRuns[i].idx < Len(stages) - 1
    /\ extractionStatus' = stages[extractRuns[i].idx + 1]
    /\ extractRuns' = [extractRuns EXCEPT ![i].idx = @ + 1]
    /\ UNCHANGED <<step, brand, generatedContent, isGenerating, isExtracting,
                   genTasks, now, genCompleted, urlVars, logoVars, galleryVars>>
    /\ downloadRequest' = Null
    /\ UNCHANGED netVars

\* Home.handleExtract: a 1500 ms timer expires inside the loop and the next
\* stage is set
handleExtractStage(i) ==
    /\ i \in DOMAIN extractRuns
    /\ extractRuns[i].idx < Len(stages)
    /\ extractionStatus' = stages[extractRuns[i].idx + 1]
    /\ extractRuns' = [extractRuns EXCEPT ![i].idx = @ + 1]
    /\ UNCHANGED <<step, brand, generatedContent, isGenerating, isExtracting,
                   genTasks, now, genCompleted, urlVars, logoVars, galleryVars>>
    /\ downloadRequest' = Null
    /\ UNCHANGED netVars

\* Mutant: the end of a run also puts the status back to idle.
handleExtractFinishResets(i) ==
    /\ i \in DOMAIN extractRuns
    /\ extractRuns[i].idx = Len(stages)
    /\ brand' = [MOCK_BRAND EXCEPT !.websiteUrl = extractRuns[i].url]
    /\ isExtracting' = FALSE
    /\ SetStep("confirm")
    /\ extractRuns' = RemoveAt(extractRuns, i)
    /\ extractionStatus' = [stage |-> "idle", progress |-> 0, message |-> ""]
    /\ UNCHANGED <<generatedContent, isGenerating, genTasks, now, genCompleted>>
    /\ downloadRequest' = Null
    /\ UNCHANGED netVars

\* Home.handleExtract: the last timer expires and the code after the loop runs
handleExtractFinish(i) ==
    /\ i \in DOMAIN extractRuns
    /\ extractRuns[i].idx = Len(stages)
    /\ brand' = [MOCK_BRAND EXCEPT !.websiteUrl = extractRuns[i].url]
    /\ isExtracting' = FALSE
    /\ SetStep("confirm")
    /\ extractRuns' = RemoveAt(extractRuns, i)
    /\ UNCHANGED <<extractionStatus, generatedContent, isGenerating, genTasks,
                   now, genCompleted>>
    /\ downloadRequest' = Null
    /\ UNCHANGED netVars

----------------------------------------------------------------------------
\* BrandDNACard (rendered when step === 'confirm' && brand)

\* Mutant: confirming the brand also discards its logo.
handleConfirmBrandClearsLogo ==
    /\ step = "confirm"
    /\ brand # Null
    /\ SetStep("logo")
    /\ brand' = [brand EXCEPT !.logo = Null]
    /\ UNCHANGED <<extractionStatus, generatedContent, isGenerating,
                   isExtracting, extractRuns, genTasks, now, genCompleted>>
    /\ downloadRequest' = Null
    /\ UNCHANGED netVars

\* Home.handleConfirmBrand
handleConfirmBrand ==
    /\ step = "confirm"
    /\ brand # Null
    /\ SetStep("logo")
    /\ UNCHANGED <<extractionStatus, brand, generatedContent, isGenerating,
                   isExtracting, extractRuns, genTasks, now, genCompleted>>
    /\ downloadRequest' = Null
    /\ UNCHANGED netVars

----------------------------------------------------------------------------
\* LogoUpload

\* LogoUpload.handleFile
handleFile(f) ==
    /\ step = "logo"
    /\ selectedFile' = f
    /\ UNCHANGED <<step, extractionStatus, brand, generatedContent, isGenerating,
                   isExtracting, extractRuns, genTasks, now, genCompleted,
                   urlVars, position, size, galleryVars>>
    /\ downloadRequest' = Null
    /\ UNCHANGED netVars

setPosition(p) ==
    /\ step = "logo"
    /\ position' = p
    /\ UNCHANGED <<step, extractionStatus, brand, generatedContent, isGenerating,
                   isExtracting, extractRuns, genTasks, now, genCompleted,
                   urlVars, selectedFile, size, galleryVars>>
    /\ downloadRequest' = Null
    /\ UNCHANGED netVars

setSize(s) ==
    /\ step = "logo"
    /\ size' = s
    /\ UNCHANGED <<step, extractionStatus, brand, generatedContent, isGenerating,
                   isExtracting, extractRuns, genTasks, now, genCompleted,
                   urlVars, selectedFile, position, galleryVars>>
    /\ downloadRequest' = Null
    /\ UNCHANGED netVars

\* URL.createObjectURL(file)
createObjectURL(f) == <<"blob", f.name>>

\* Mutant: the opacity is stored as a percentage.
handleLogoUploadPercent ==
    /\ step = "logo"
    /\ selectedFile # Null
    /\ IF brand # Null
       THEN /\ brand' = [brand EXCEPT !.logo =
                            [ id       |-> "logo-1",
                              url      |-> createObjectURL(selectedFile),
                              position |-> position,
                              size     |-> size,
                              opacity  |-> 100 ]]
            /\ SetStep("generate")
       ELSE UNCHANGED <<step, brand, urlVars, logoVars, galleryVars>>
    /\ UNCHANGED <<extractionStatus, generatedContent, isGenerating, isExtracting,
                   extractRuns, genTasks, now, genCompleted>>
    /\ downloadRequest' = Null
    /\ UNCHANGED netVars

\* Home.handleLogoUpload, called by LogoUpload.handleSubmit (the button is
\* disabled while no file is selected)
handleLogoUpload ==
    /\ step = "logo"
    /\ selectedFile # Null
    /\ IF brand # Null
       THEN /\ brand' = [brand EXCEPT !.logo =
                            [ id       |-> "logo-1",
                              url      |-> createObjectURL(selectedFile),
                              position |-> position,
                              size     |-> size,
                              opacity  |-> 1 ]]
            /\ SetStep("generate")
       ELSE UNCHANGED <<step, brand, urlVars, logoVars, galleryVars>>
    /\ UNCHANGED <<extractionStatus, generatedContent, isGenerating, isExtracting,
                   extractRuns, genTasks, now, genCompleted>>
    /\ downloadRequest' = Null
    /\ UNCHANGED netVars

----------------------------------------------------------------------------
\* GenerationForm

\* GenerationForm.handleSubmit and Home.handleGenerate up to its await.  The
\* continuation keeps the `brand` of the render that created the handler.
handleGenerate(platform, prompt, type) ==
    /\ step = "generate"
    /\ GenerateEnabled(prompt)
    /\ genCompleted + Len(genTasks) < MaxGen
    /\ isGenerating' = TRUE
    /\ genTasks' = Append(genTasks, [ platform |-> platform, prompt |-> prompt,
                                      type |-> type, brand |-> brand ])
    /\ UNCHANGED <<step, extractionStatus, brand, generatedContent, isExtracting,
                   extractRuns, now, genCompleted, urlVars, logoVars,
                   galleryVars>>
    /\ downloadRequest' = Null
    /\ UNCHANGED netVars

\* Home.handleGenerate: const newContent
newContent(t, time) ==
    [ id       |-> ToString(time),
      type     |-> t.type,
      platform |-> t.platform,
      url      |-> MOCK_CONTENT[1].url,
      prompt   |-> t.prompt,
      brandId  |-> IF t.brand # Null THEN t.brand.id ELSE "" ]

\* Mutant: the list is replaced by the new item alone.
addContentAlone(item, prev) == <<item>>

\* Mutant: the new item is written over the newest entry.
addContentInPlace(item, prev) ==
    IF prev = <<>> THEN <<item>> ELSE <<item>> \o Tail(prev)

\* setGeneratedContent(prev => [newContent, ...prev])
addContent(item, prev) == <<item>> \o prev

\* Home.handleGenerate: the 3000 ms timer expires and the rest runs
handleGenerateDone(i) ==
    /\ i \in DOMAIN genTasks
    /\ now' = now + 1
    /\ generatedContent' = addContent(newContent(genTasks[i], now'), generatedContent)
    /\ isGenerating' = FALSE
    /\ SetStep("gallery")
    /\ genTasks' = RemoveAt(genTasks, i)
    /\ genCompleted' = genCompleted + 1
    /\ UNCHANGED <<extractionStatus, brand, isExtracting, extractRuns>>
    /\ downloadRequest' = Null
    /\ UNCHANGED netVars

----------------------------------------------------------------------------
\* ContentGallery and DownloadModal

handleDownloadClick(k) ==
    /\ step = "gallery"
    /\ k \in DOMAIN GalleryItems
    /\ selectedItem' = GalleryItems[k]
    /\ showDownloadModal' = TRUE
    /\ UNCHANGED <<step, extractionStatus, brand, generatedContent, isGenerating,
                   isExtracting, extractRuns, genTasks, now, genCompleted,
                   urlVars, logoVars>>
    /\ downloadRequest' = Null
    /\ UNCHANGED netVars

\* DownloadModal onClose
onClose ==
    /\ step = "gallery"
    /\ showDownloadModal /\ selectedItem # Null
    /\ showDownloadModal' = FALSE
    /\ UNCHANGED <<step, extractionStatus, brand, generatedContent, isGenerating,
                   isExtracting, extractRuns, genTasks, now, genCompleted,
                   urlVars, logoVars, selectedItem>>
    /\ downloadRequest' = Null
    /\ UNCHANGED netVars

\* Home.handleDownload(item, format), as the request it makes.  Spec does
\* not follow the request into the api client; SpecDownload does.
handleDownload(item, format) ==
    /\ downloadRequest' = [item |-> item, format |-> format.format,
                           quality |-> format.quality]
    /\ UNCHANGED <<step, extractionStatus, brand, generatedContent, isGenerating,
                   isExtracting, extractRuns, genTasks, now, genCompleted,
                   urlVars, logoVars, galleryVars, netVars>>

\* DownloadModal: a button of the format list
DownloadFormat(k) ==
    /\ step = "gallery"
    /\ showDownloadModal /\ selectedItem # Null
    /\ k \in DOMAIN formats(selectedItem)
    /\ handleDownload(selectedItem, formats(selectedItem)[k])

\* DownloadModal: the quick download button, onDownload(item, formats[0])
QuickDownload ==
    /\ step = "gallery"
    /\ showDownloadModal /\ selectedItem # Null
    /\ handleDownload(selectedItem, formats(selectedItem)[1])

\* Home: the "+ Generar Mas Contenido" button of the gallery step
GenerateMore ==
    /\ step = "gallery"
    /\ SetStep("generate")
    /\ UNCHANGED <<extractionStatus, brand, generatedContent, isGenerating,
                   isExtracting, extractRuns, genTasks, now, genCompleted>>
    /\ downloadRequest' = Null
    /\ UNCHANGED netVars

----------------------------------------------------------------------------
\* renderNavigation: onClick={() => isClickable && setStep(s.id)}
NavClick(s) ==
    /\ isClickable(s)
    /\ SetStep(s)
    /\ UNCHANGED <<extractionStatus, brand, generatedContent, isGenerating,
                   isExtracting, extractRuns, genTasks, now, genCompleted>>
    /\ downloadRequest' = Null
    /\ UNCHANGED netVars

----------------------------------------------------------------------------
Next ==
    \/ \E v \in TypedUrls : UrlChange(v)
    \/ \E e \in ExampleUrls : UrlExample(e)
    \/ UrlSubmit
    \/ \E i \in 1..Len(extractRuns) : handleExtractStage(i)
    \/ \E i \in 1..Len(extractRuns) : handleExtractFinish(i)
    \/ handleConfirmBrand
    \/ \E f \in Files : handleFile(f)
    \/ \E p \in PositionChoices \cup {"bottom-right"} : setPosition(p)
    \/ \E s \in SizeChoices \cup {"medium"} : setSize(s)
    \/ handleLogoUpload
    \/ \E g \in GenerationInputs : handleGenerate(PLATFORMS[g[1]], g[2], g[3])
    \/ \E i \in 1..Len(genTasks) : handleGenerateDone(i)
    \/ \E k \in 1..Len(GalleryItems) : handleDownloadClick(k)
    \/ onClose
    \/ \E k \in 1..Len(imageFormats) : DownloadFormat(k)
    \/ QuickDownload
    \/ GenerateMore
    \/ \E s \in Range(navSteps) : NavClick(s)

Spec == Init /\ [][Next]_vars

----------------------------------------------------------------------------
\* api client: downloadContent, followed from the download buttons.

\* The key of a download: the asset, the format and the quality asked for.
DownloadKey(item, format) ==
    [id |-> item.id, format |-> format.format, quality |-> format.quality]

\* Home.handleDownload and api downloadContent up to `await fetch(url)`
downloadContent(item, format) ==
    /\ Len(fetches) < MaxFetches
    /\ downloadRequest' = [item |-> item, format |-> format.format,
                           quality |-> format.quality]
    /\ fetches' = Append(fetches, [key |-> DownloadKey(item, format),
                                   url |-> item.url])
    /\ UNCHANGED <<step, extractionStatus, brand, generatedContent, isGenerating,
                   isExtracting, extractRuns, genTasks, now, genCompleted,
                   urlVars, logoVars, galleryVars, lastFetched, apiCall>>

\* DownloadModal: a button of the format list
DownloadFormatFetch(k) ==
    /\ step = "gallery"
    /\ showDownloadModal /\ selectedItem # Null
    /\ k \in DOMAIN formats(selectedItem)
    /\ downloadContent(selectedItem, formats(selectedItem)[k])

\* DownloadModal: the quick download button
QuickDownloadFetch ==
    /\ step = "gallery"
    /\ showDownloadModal /\ selectedItem # Null
    /\ downloadContent(selectedItem, formats(selectedItem)[1])

\* api downloadContent: the response and its blob arrive and the link is
\* clicked
FetchDone(i) ==
    /\ i \in DOMAIN fetches
    /\ fetches' = RemoveAt(fetches, i)
    /\ lastFetched' = fetches[i].key
    /\ downloadRequest' = Null
    /\ UNCHANGED <<step, extractionStatus, brand, generatedContent, isGenerating,
                   isExtracting, extractRuns, genTasks, now, genCompleted,
                   urlVars, logoVars, galleryVars, apiCall>>

NextDownload ==
    \/ \E s \in Range(navSteps) : NavClick(s)
    \/ \E k \in 1..Len(GalleryItems) : handleDownloadClick(k)
    \/ onClose
    \/ \E k \in 1..Len(imageFormats) : DownloadFormatFetch(k)
    \/ QuickDownloadFetch
    \/ \E i \in 1..Len(fetches) : FetchDone(i)

SpecDownload == Init /\ [][NextDownload]_vars

----------------------------------------------------------------------------
\* api client: generateImage and generateVideo, called with arguments a
\* caller may pass.

ApiBrandIds == {"demo-1", ""}
ApiPrompts == {ShortPrompt, LongPrompt}
Durations == {5, 10}

\* Status codes of the responses: success, invalid request, quota exhausted,
\* rate limit, server error.
Statuses == {200, 400, 402, 429, 500}

\* Response.ok
ResponseOk(status) == status >= 200 /\ status <= 299

\* api generateImage up to `await fetch(...)`: one request is sent
generateImage(brandId, platform, prompt) ==
    /\ apiCall = Null
    /\ apiCall' = [ fn       |-> "generateImage",
                    body     |-> [brand_id |-> brandId, platform |-> platform,
                                  prompt |-> prompt],
                    requests |-> 1,
                    status   |-> 0,
                    state    |-> "awaiting" ]
    /\ UNCHANGED <<step, extractionStatus, brand, generatedContent, isGenerating,
                   isExtracting, extractRuns, genTasks, now, genCompleted,
                   urlVars, logoVars, galleryVars, downloadRequest, fetches,
                   lastFetched>>

\* api generateVideo up to `await fetch(...)`: one request is sent
generateVideo(brandId, prompt, duration) ==
    /\ apiCall = Null
    /\ apiCall' = [ fn       |-> "generateVideo",
                    body     |-> [brand_id |-> brandId, prompt |-> prompt,
                                  duration_seconds |-> duration],
                    requests |-> 1,
                    status   |-> 0,
                    state    |-> "awaiting" ]
    /\ UNCHANGED <<step, extractionStatus, brand, generatedContent, isGenerating,
                   isExtracting, extractRuns, genTasks, now, genCompleted,
                   urlVars, logoVars, galleryVars, downloadRequest, fetches,
                   lastFetched>>

\* Mutant: every failed response is answered with another request.
ApiResponseRetries(status) ==
    /\ apiCall # Null
    /\ apiCall.state = "awaiting"
    /\ apiCall' = IF ResponseOk(status)
                  THEN [apiCall EXCEPT !.status = status, !.state = "resolved"]
                  ELSE [apiCall EXCEPT !.status = status, !.requests = @ + 1]
    /\ UNCHANGED <<step, extractionStatus, brand, generatedContent, isGenerating,
                   isExtracting, extractRuns, genTasks, now, genCompleted,
                   urlVars, logoVars, galleryVars, downloadRequest, fetches,
                   lastFetched>>

\* the response arrives: `if (!response.ok) throw`, else the body is returned
ApiResponse(status) ==
    /\ apiCall # Null
    /\ apiCall.state = "awaiting"
    /\ apiCall' = [apiCall EXCEPT !.status = status,
                                  !.state = IF ResponseOk(status)
                                            THEN "resolved" ELSE "rejected"]
    /\ UNCHANGED <<step, extractionStatus, brand, generatedContent, isGenerating,
                   isExtracting, extractRuns, genTasks, now, genCompleted,
                   urlVars, logoVars, galleryVars, downloadRequest, fetches,
                   lastFetched>>

\* the caller has taken the result or the error of the settled call
ApiReturn ==
    /\ apiCall # Null
    /\ apiCall.state # "awaiting"
    /\ apiCall' = Null
    /\ UNCHANGED <<step, extractionStatus, brand, generatedContent, isGenerating,
                   isExtracting, extractRuns, genTasks, now, genCompleted,
                   urlVars, logoVars, galleryVars, downloadRequest, fetches,
                   lastFetched>>

NextApi ==
    \/ \E b \in ApiBrandIds, p \in Range(PLATFORMS), q \in ApiPrompts :
           generateImage(b, p, q)
    \/ \E b \in ApiBrandIds, q \in ApiPrompts, d \in Durations :
           generateVideo(b, q, d)
    \/ \E st \in Statuses : ApiResponse(st)
    \/ ApiReturn

SpecApi == Init /\ [][NextApi]_vars

----------------------------------------------------------------------------
\* Properties.

\* A handleExtract call starts / a handleGenerate call ends in this step.
RunStarts == Len(extractRuns') > Len(extractRuns)
RunEnds == Len(extractRuns') < Len(extractRuns)

\* The documented stage order of one extraction run.
StageOrder == <<"crawling", "analyzing_colors", "analyzing_fonts",
                "analyzing_tone", "complete">>

\* C1: a generation requested while the brand has no logo (brand is null or
\* brand.logo is null) adds no content asset: when such a request runs to
\* its end, the list of generated content is unchanged.
C1_NoLogoAddsNothing ==
    [][ \A i \in DOMAIN genTasks :
          (~HasLogo(genTasks[i].brand) /\ genTasks' = RemoveAt(genTasks, i))
              => generatedContent' = generatedContent ]_vars

\* C2: whenever the workflow step is 'generate', a brand profile exists and
\* its logo is configured.
C2_GenerateNeedsLogo == step = "generate" => HasLogo(brand)

\* C3: the gallery step never displays an item while no logo-configured
\* brand exists.
C3_GalleryOnlyBranded ==
    (step = "gallery" /\ Len(GalleryItems) > 0) => HasLogo(brand)

\* C4: within one extraction run the status takes the stages crawling,
\* analyzing_colors, analyzing_fonts, analyzing_tone, complete in that order
\* with percents 20, 40, 60, 80, 100: a run starts at crawling/20, every
\* other change of the status goes from one stage to the next one, and a run
\* ends only from complete/100.
C4_StagesInOrder ==
    [][ /\ extractionStatus' # extractionStatus =>
             IF RunStarts
             THEN /\ extractionStatus'.stage = "crawling"
                  /\ extractionStatus'.progress = 20
             ELSE \E k \in 1..4 :
                     /\ extractionStatus.stage = StageOrder[k]
                     /\ extractionStatus.progress = 20 * k
                     /\ extractionStatus'.stage = StageOrder[k + 1]
                     /\ extractionStatus'.progress = 20 * (k + 1)
                     /\ extractionStatus'.progress > extractionStatus.progress
        /\ RunEnds => /\ extractionStatus.stage = "complete"
                      /\ extractionStatus.progress = 100
                      /\ extractionStatus' = extractionStatus ]_vars

\* C4 witness: a run has gone through all its stages and is about to end.
C4_Witness ==
    /\ Len(extractRuns) = 1
    /\ extractRuns[1].idx = 5
    /\ extractionStatus.stage = "complete"
    /\ extractionStatus.progress = 100

\* C5: the percent is 100 exactly when the stage is 'complete', it is below
\* 100 when the stage is 'error', and it is 0 exactly when the stage is 'idle'.
C5_PercentMatchesStage ==
    /\ extractionStatus.progress = 100 <=> extractionStatus.stage = "complete"
    /\ extractionStatus.stage = "error" => extractionStatus.progress < 100
    /\ extractionStatus.progress = 0 <=> extractionStatus.stage = "idle"

\* C5 witness: an extraction has ended and left the status at complete/100.
C5_Witness ==
    /\ extractionStatus.stage = "complete"
    /\ extractionStatus.progress = 100
    /\ ~isExtracting
    /\ brand # Null

\* C6 as claimed: once the status is 'complete' (or 'error'), no action moves
\* it to another stage or to a lower percent.
C6_NeverRegresses ==
    [][ extractionStatus.stage \in {"complete", "error"} =>
          /\ extractionStatus'.stage = extractionStatus.stage
          /\ extractionStatus'.progress >= extractionStatus.progress ]_vars

\* C6 amended: once the status is 'complete' (or 'error'), the only action
\* that changes it is the submission of another URL from the url step, which
\* starts a new run and restarts the status at crawling/20.
C6_RegressesOnlyByNewRun ==
    [][ (extractionStatus.stage \in {"complete", "error"}
            /\ extractionStatus' # extractionStatus) =>
          /\ RunStarts
          /\ step = "url" /\ step' = "extracting"
          /\ extractionStatus'.stage = "crawling"
          /\ extractionStatus'.progress = 20 ]_vars

\* C6 witness: a second run has started after an earlier one completed.
C6_Witness ==
    /\ brand # Null
    /\ isExtracting
    /\ extractionStatus.stage = "crawling"

\* C7: at most one extraction run is active, and isExtracting is true
\* exactly while one is; no request made while isExtracting starts or queues
\* a second run.
C7_OneExtraction ==
    /\ Len(extractRuns) <= 1
    /\ isExtracting <=> Len(extractRuns) = 1

\* C7 witness: an extraction is in flight and the user is back on the url
\* step with text in the field.
C7_Witness ==
    /\ isExtracting
    /\ step = "url"
    /\ url # <<>>

\* C8: the number of generated assets equals the number of completed
\* generations, and no asset appears twice.
C8_OneAssetPerGeneration ==
    /\ Len(generatedContent) = genCompleted
    /\ \A i, j \in DOMAIN generatedContent :
          i # j => generatedContent[i].id # generatedContent[j].id

\* C8 witness: two generations have completed.
C8_Witness ==
    /\ genCompleted = 2
    /\ Len(generatedContent) = 2

\* C9: every step leaves the generated-content list as it is or puts one new
\* entry in front of it; no existing entry is changed or removed.
C9_AssetsImmutable ==
    [][ \/ generatedContent' = generatedContent
        \/ /\ Len(generatedContent') = Len(generatedContent) + 1
           /\ Tail(generatedContent') = generatedContent ]_vars

\* C9 witness: a re-extraction runs while the list holds two assets, the
\* older one still in its place.
C9_Witness ==
    /\ Len(generatedContent) = 2
    /\ generatedContent[2].id = "1"
    /\ generatedContent[1].id = "2"
    /\ isExtracting

\* C10: every download request carries a format and quality allowed for the
\* content type of its asset: png, jpg, webp or pdf for an image, mp4, mov
\* or webm for a video, in hd or 4k.
C10_DownloadAllowed ==
    downloadRequest # Null =>
        /\ downloadRequest.item.type \in {"image", "video"}
        /\ downloadRequest.quality \in {"hd", "4k"}
        /\ downloadRequest.item.type = "image" =>
               downloadRequest.format \in {"png", "jpg", "webp", "pdf"}
        /\ downloadRequest.item.type = "video" =>
               downloadRequest.format \in {"mp4", "mov", "webm"}

\* C10 witness: a download of a video asset has been requested.
C10_Witness ==
    /\ downloadRequest # Null
    /\ downloadRequest.item.type = "video"

----------------------------------------------------------------------------
\* Length of a prompt as the form counts it: prompt.length
PromptLength(prompt) == prompt.chars + prompt.spaces

\* C11: every asset in the gallery comes from a prompt that is not empty or
\* whitespace-only and is at most 500 characters long.
C11_PromptLengthValid ==
    \A i \in DOMAIN generatedContent :
        /\ TrimNonEmpty(generatedContent[i].prompt)
        /\ PromptLength(generatedContent[i].prompt) >= 1
        /\ PromptLength(generatedContent[i].prompt) <= 500

\* C12: every generated asset has one of the platforms instagram_post,
\* instagram_story, facebook, linkedin and one of the types image, video.
C12_PlatformAndTypeValid ==
    \A i \in DOMAIN generatedContent :
        /\ generatedContent[i].platform \in
               {"instagram_post", "instagram_story", "facebook", "linkedin"}
        /\ generatedContent[i].type \in {"image", "video"}

\* C12 witness: the gallery holds a video for linkedin and an image for
\* another platform.
C12_Witness ==
    /\ \E i \in DOMAIN generatedContent :
           /\ generatedContent[i].platform = "linkedin"
           /\ generatedContent[i].type = "video"
    /\ \E i \in DOMAIN generatedContent :
           /\ generatedContent[i].platform # "linkedin"
           /\ generatedContent[i].type = "image"

\* C13: the brand is changed only by the end of an extraction run, which
\* sets the extracted brand for the run's URL, and, once a brand exists, by
\* the submission of a logo in the logo step, which replaces the logo field
\* and nothing else.  Confirming, generating, downloading and navigating
\* leave it as it is.
C13_BrandFrame ==
    [][ brand' # brand =>
          \/ /\ RunEnds
             /\ \E i \in DOMAIN extractRuns :
                    brand' = [MOCK_BRAND EXCEPT !.websiteUrl = extractRuns[i].url]
          \/ /\ brand # Null
             /\ step = "logo"
             /\ selectedFile # Null
             /\ UNCHANGED extractRuns
             /\ brand'.logo # Null
             /\ brand' = [brand EXCEPT !.logo = brand'.logo] ]_vars

\* C13 witness: with an extracted brand that carries an uploaded logo, an
\* asset has been generated for it and a download has just been requested.
C13_Witness ==
    /\ HasLogo(brand)
    /\ \E i \in DOMAIN generatedContent : generatedContent[i].brandId = brand.id
    /\ downloadRequest # Null

\* The digits of a hexadecimal colour.
HexDigits == {"0", "1", "2", "3", "4", "5", "6", "7", "8", "9",
              "a", "b", "c", "d", "e", "f", "A", "B", "C", "D", "E", "F"}

\* A hex colour: '#' followed by three or six hexadecimal digits.
IsHexColor(c) ==
    /\ Len(c) \in {4, 7}
    /\ c[1] = "#"
    /\ \A i \in 2..Len(c) : c[i] \in HexDigits

\* The colour roles of a brand.
ColorRoles == {"primary", "secondary", "accent", "background", "text"}

\* C14: whenever a brand exists, each of its five colour roles (primary,
\* secondary, accent, background, text) holds a valid hex colour.
C14_ColorsPopulated ==
    brand # Null =>
        /\ DOMAIN brand.colors = ColorRoles
        /\ \A r \in ColorRoles : IsHexColor(brand.colors[r])

\* C14 witness: an extracted brand that has since received a logo.
C14_Witness ==
    /\ brand # Null
    /\ brand.logo # Null
    /\ step = "generate"

\* C15: a logo stored in the brand has an opacity between 0 and 1, one of
\* the five positions (top-left, top-right, bottom-left, bottom-right,
\* center) and one of the three sizes (small, medium, large).
C15_LogoWellFormed ==
    HasLogo(brand) =>
        /\ brand.logo.opacity >= 0
        /\ brand.logo.opacity <= 1
        /\ brand.logo.position \in
               {"top-left", "top-right", "bottom-left", "bottom-right", "center"}
        /\ brand.logo.size \in {"small", "medium", "large"}

\* C15 witness: a logo stored with a position and a size the user chose.
C15_Witness ==
    /\ HasLogo(brand)
    /\ brand.logo.position = "center"
    /\ brand.logo.size = "large"

\* C16: the extraction can fail at every stage before complete: in each
\* state whose stage is crawling, analyzing_colors, analyzing_fonts or
\* analyzing_tone, a step that moves the status to stage 'error' is possible.
C16_ErrorReachable ==
    extractionStatus.stage \in {"crawling", "analyzing_colors",
                                "analyzing_fonts", "analyzing_tone"} =>
        ENABLED (Next /\ extractionStatus'.stage = "error")

\* C17: an extraction that has not reached complete can be cancelled: while
\* a run is before its last stage, a step is possible that ends the run
\* there, so that it sets no further status, no brand and no step.
C17_CanCancel ==
    (\E i \in DOMAIN extractRuns : extractRuns[i].idx < Len(stages)) =>
        ENABLED (Next /\ RunEnds /\ UNCHANGED <<brand, extractionStatus>>)

\* A step that starts a fetch in the api client.
FetchStarts == Len(fetches') > Len(fetches)

\* C18: once the download for a key (asset, format, quality) has been
\* fetched, a later request for the same key is served without another
\* fetch: the step that makes the request starts none.
C18_SecondRequestNoFetch ==
    [][ ( /\ downloadRequest' # Null
          /\ lastFetched # Null
          /\ DownloadKey(downloadRequest'.item, downloadRequest') = lastFetched )
        => ~FetchStarts ]_vars

\* C19: requests for the same key made while its fetch is under way share
\* that fetch: no two fetches under way have the same key.
C19_OneFetchPerKey ==
    \A i, j \in DOMAIN fetches :
        fetches[i].key = fetches[j].key => i = j

\* A response that is an error and is not transient (rate limit, 5xx).
NonTransientError(status) ==
    /\ ~ResponseOk(status)
    /\ status # 429
    /\ ~(status >= 500 /\ status <= 599)

\* C20: a provider call sends at most 3 requests (2 retries), and a response
\* with a non-transient error fails the call at once, with no further
\* request.
C20_BoundedRetries ==
    [][ apiCall' # Null =>
          /\ apiCall'.requests <= 3
          /\ ( /\ apiCall # Null
               /\ apiCall.state = "awaiting"
               /\ apiCall' # apiCall
               /\ NonTransientError(apiCall'.status) )
             => /\ apiCall'.state = "rejected"
                /\ apiCall'.requests = apiCall.requests ]_vars

\* C20 witness: a call has failed on a non-transient error after its one
\* request.
C20_Witness ==
    /\ apiCall # Null
    /\ apiCall.status = 400
    /\ apiCall.state = "rejected"
    /\ apiCall.requests = 1

----------------------------------------------------------------------------
\* supabase_schema.sql: the defaults of brands.logo_position, logo_size and
\* logo_opacity
SchemaLogoDefaults ==
    [position |-> "bottom-right", size |-> "medium", opacity |-> 1]

\* A step that stores a logo in the brand.
LogoStored == brand # Null /\ brand' # Null /\ brand'.logo # Null
              /\ brand'.logo # brand.logo

\* C21: a logo confirmed without a choice of position or size is stored
\* with the defaults of the brands table (bottom-right, medium, opacity 1):
\* the logo form opens on these defaults, only a step of the form itself
\* changes its position or size, and the stored logo carries what the form
\* shows, with opacity 1.
C21_LogoDefaults ==
    [][ /\ (step # "logo" /\ step' = "logo") =>
               /\ position' = SchemaLogoDefaults.position
               /\ size' = SchemaLogoDefaults.size
        /\ (step = "logo" /\ step' = "logo"
              /\ (position' # position \/ size' # size)) =>
               UNCHANGED <<brand, extractionStatus, extractRuns, genTasks,
                           generatedContent, selectedFile>>
        /\ LogoStored =>
               /\ brand'.logo.position = position
               /\ brand'.logo.size = size
               /\ brand'.logo.opacity = SchemaLogoDefaults.opacity ]_vars

\* C21 witness: a logo has been stored with the default position and size.
C21_Witness ==
    /\ HasLogo(brand)
    /\ step = "generate"
    /\ brand.logo.position = "bottom-right"
    /\ brand.logo.size = "medium"
    /\ brand.logo.opacity = 1

\* The place of each step of the navigation bar in the order url, confirm,
\* logo, generate, gallery.
StepRank == [url |-> 1, confirm |-> 2, logo |-> 3, generate |-> 4, gallery |-> 5]

\* C22: in every state the navigation bar allows the jump to gallery, and
\* allows the jump to another step only if that step comes strictly before
\* the current one in the order url, confirm, logo, generate, gallery; at
\* step extracting, which has no place in the order, only gallery is
\* clickable.
C22_NavClickable ==
    \A s \in {"url", "confirm", "logo", "generate", "gallery"} :
        (ENABLED NavClick(s)) <=>
            \/ s = "gallery"
            \/ /\ step \in DOMAIN StepRank
               /\ StepRank[s] < StepRank[step]

\* C22 witness: a second extraction is running, so the step is extracting
\* while a brand exists.
C22_Witness ==
    /\ step = "extracting"
    /\ brand # Null

\* C23: whenever the step is confirm, a brand exists.
C23_ConfirmHasBrand == step = "confirm" => brand # Null

\* C24: once the brand carries a logo, no step leaves the brand without one.
C24_LogoKept == [][ HasLogo(brand) => HasLogo(brand') ]_vars

\* A step in which a handleGenerate call runs to its end.
GenEnds == genCompleted' > genCompleted

\* C25: the end of a background task does not override the user's
\* navigation: the end of an extraction changes the step only if the step is
\* still extracting, and the end of a generation changes it only if the step
\* is still generate.
C25_CompletionKeepsNavigation ==
    [][ /\ (RunEnds /\ step' # step) => step = "extracting"
        /\ (GenEnds /\ step' # step) => step = "generate" ]_vars

----------------------------------------------------------------------------
\* Spec with the timers of handleExtract and handleGenerate scheduled
\* fairly: a timer that has been set expires.
SpecFair ==
    /\ Spec
    /\ WF_vars(\E i \in 1..Len(extractRuns) : handleExtractStage(i))
    /\ WF_vars(\E i \in 1..Len(extractRuns) : handleExtractFinish(i))
    /\ WF_vars(\E i \in 1..Len(genTasks) : handleGenerateDone(i))

\* C26: with fair timers, every started extraction ends, and it ends with
\* stage complete, isExtracting false and a brand set; every started
\* generation ends, and it ends with isGenerating false and one asset added
\* to the gallery.  Neither busy flag stays true forever.
C26_TasksEnd ==
    /\ []<>(~isExtracting)
    /\ []<>(~isGenerating)
    /\ [][ /\ (isExtracting /\ ~isExtracting') =>
                   /\ extractionStatus'.stage = "complete"
                   /\ brand' # Null
           /\ (isGenerating /\ ~isGenerating') =>
                   Len(generatedContent') = Len(generatedContent) + 1 ]_vars

\* C26 witness: an extraction and a generation are running at once.
C26_Witness ==
    /\ isExtracting
    /\ isGenerating
    /\ extractRuns # <<>>
    /\ genTasks # <<>>

\* C27: every generated asset has a non-empty brandId, the id of the brand
\* that was current when its generation was requested: the asset a finished
\* generation adds carries the id of the brand its request captured.
C27_BrandIdOfRequest ==
    [][ GenEnds =>
          \E i \in DOMAIN genTasks :
              /\ genTasks' = RemoveAt(genTasks, i)
              /\ genTasks[i].brand # Null
              /\ Head(generatedContent').brandId # ""
              /\ Head(generatedContent').brandId = genTasks[i].brand.id ]_vars

\* C28: a confirmed logo upload is never dropped: whenever the logo form has
\* a file selected, confirming it leaves the brand carrying a logo with the
\* chosen position and size and moves the step to generate.
C28_UploadStored ==
    (step = "logo" /\ selectedFile # Null) =>
        ENABLED ( /\ handleLogoUpload
                  /\ HasLogo(brand')
                  /\ brand'.logo.position = position
                  /\ brand'.logo.size = size
                  /\ step' = "generate" )

\* C29: at most one generation is in flight, isGenerating is true exactly
\* while one is, and while it is true no step starts another one.
C29_OneGeneration ==
    /\ [](Len(genTasks) <= 1)
    /\ [](isGenerating <=> Len(genTasks) = 1)
    /\ [][ isGenerating => Len(genTasks') <= Len(genTasks) ]_vars

\* C29 witness: after one generation has finished the user is back at the
\* generate step with the next generation running.
C29_Witness ==
    /\ isGenerating
    /\ step = "generate"
    /\ genCompleted = 1
    /\ Len(generatedContent) = 1

\* The URL the form makes of an input: the input itself when it starts with
\* 'http', otherwise the input after 'https://'.
Prefixed(value) ==
    IF Len(value) > 0 /\ value[1] = "http"
    THEN value
    ELSE <<"http", "s", "://">> \o value

\* C30: an extraction starts only from a non-empty input, with a URL that
\* begins with 'http' and parses, being the input itself or, for an input
\* not starting with 'http', the input after 'https://'; the invalid flag is
\* set only by an input that does not parse, in a step that starts nothing;
\* and submitting an input that does not parse sets the flag and starts
\* nothing.
C30_UrlFormValidates ==
    /\ [][ /\ RunStarts =>
                /\ url # <<>>
                /\ extractRuns'[Len(extractRuns')].url = Prefixed(url)
                /\ extractRuns'[Len(extractRuns')].url[1] = "http"
                /\ ParsesAsURL(extractRuns'[Len(extractRuns')].url)
           /\ (isValid /\ ~isValid') =>
                /\ ~RunStarts
                /\ url # <<>>
                /\ ~ParsesAsURL(Prefixed(url)) ]_vars
    /\ []( (step = "url" /\ ~isExtracting /\ url # <<>>
              /\ ~ParsesAsURL(Prefixed(url))) =>
           ENABLED (UrlSubmit /\ ~isValid' /\ UNCHANGED extractRuns) )

\* C30 witness: after an extraction that ran, the form has refused an input
\* that does not parse.
C30_Witness ==
    /\ step = "url"
    /\ brand # Null
    /\ url = <<"a b">>
    /\ ~isValid

====
